---- MODULE Spec2Model ----
(***************************************************************************)
(* gnuboy, SDL2 backend (src/src/sys.h): the joystick axis debouncer, the  *)
(* key mapper, the event dispatcher ev_poll and the two-surface            *)
(* presentation pipeline vid_init / vid_begin / vid_end.                   *)
(*                                                                         *)
(* The program state is the file's statics (Xstatus, Ystatus, fullscreen,  *)
(* screen, win, renderer, fb.enabled, fb.ptr) plus the host's event queue  *)
(* and the lock depth of the two surfaces.  ev_poll is one action: it      *)
(* folds the dispatcher's switch over the whole host queue.  The other     *)
(* variables are observers: they record what the most recent operation did *)
(* (the events it posted, the joyaxis_evt calls and SDL video calls it     *)
(* made), and carry no information back into the program.                  *)
(***************************************************************************)
EXTENDS Integers, Sequences, FiniteSets

(* ---------------------------------------------------------------- bounds *)

\* Longest host event queue one ev_poll call finds.
MaxHostQ == 2
\* Entries of the key table before its sentinel.
MaxKeymap == 2

(* ------------------------------------------------------ program constants *)

JA_X == 0
JA_Y == 1
JAV_LEFT_OR_UP == 0
JAV_CENTERED == 1
JAV_RIGHT_OR_DOWN == 2
JOY_COMMIT_RANGE == 3276

\* input.h (not part of src/): event kinds and the pseudo-key codes.  Only
\* that the codes are non-zero and pairwise distinct matters here.
EV_PRESS == "EV_PRESS"
EV_RELEASE == "EV_RELEASE"
K_JOYUP == 300
K_JOYDOWN == 301
K_JOYLEFT == 302
K_JOYRIGHT == 303
K_JOY0 == 310

DirKeys == {K_JOYLEFT, K_JOYRIGHT, K_JOYUP, K_JOYDOWN}

\* Character values the key mapper compares against (lines 113-116).
Ch0 == 48
Ch9 == 57
Cha == 97
Chz == 122
SDLK_RETURN == 13

VARIABLES
    pc,          \* caller's position: "uninit", "ready", "frame", "closed", "exited"
    rc_scale,    \* the configured integer rc_getint("scale") returns
    vmode,       \* static int vmode[3]: width and height (the depth is not used)
    use_altenter, \* static int use_altenter
    render_scale, \* the factor handed to SDL_RenderSetScale; 0 before vid_init
    fb,          \* fb.w, fb.h, fb.dirty, fb.delegate_scaling
    win,         \* SDL_Window *win is non-NULL
    renderer,    \* SDL_Renderer *renderer is non-NULL
    screen,      \* index i with screen == screens[i]; -1 before vid_init
    locked,      \* lock depth of screens[0], screens[1]
    fb_enabled,  \* fb.enabled
    fb_ptr,      \* index of the surface whose pixels fb.ptr addresses, -1 if none
    fullscreen,  \* static int fullscreen
    Xstatus,     \* static unsigned char Xstatus
    Ystatus,     \* static unsigned char Ystatus
    keymap,      \* extern int keymap[][2]
    hostq,       \* the host's (SDL's) pending event queue
    \* observers
    lastop,      \* name of the most recent operation
    evq,         \* internal events the most recent ev_poll posted, in order
    polled,      \* per host event the most recent ev_poll consumed: what it did
    sdlcalls,    \* SDL video calls the most recent vid_* operation made
    held,        \* directional keys with a PRESS and no later RELEASE posted
    frames,      \* completed vid_begin/vid_end cycles since vid_init, modulo 2
    allshown,    \* every completed cycle so far ended with fb.enabled true
    scen,        \* readings of Scenario handled so far and nothing else; -1 if off
    scenOut      \* events posted while handling each of those readings

vars == <<pc, rc_scale, vmode, use_altenter, render_scale, fb, win, renderer, screen, locked, fb_enabled, fb_ptr, fullscreen,
          Xstatus, Ystatus, keymap, hostq, lastop, evq, polled, sdlcalls,
          held, frames, allshown, scen, scenOut>>

(* ------------------------------------------------------------ host events *)

Ev(t, s, x, y) == [type |-> t, sub |-> s, a |-> x, b |-> y]

WindowSubs == {"SDL_WINDOWEVENT_MINIMIZED", "SDL_WINDOWEVENT_HIDDEN",
               "SDL_WINDOWEVENT_SHOWN", "SDL_WINDOWEVENT_RESTORED",
               "SDL_WINDOWEVENT_MOVED"}
WindowEvents == {Ev("SDL_WINDOWEVENT", s, 0, 0) : s \in WindowSubs}

HatSubs == {"SDL_HAT_LEFTUP", "SDL_HAT_UP", "SDL_HAT_RIGHTUP", "SDL_HAT_LEFT",
            "SDL_HAT_CENTERED", "SDL_HAT_RIGHT", "SDL_HAT_LEFTDOWN",
            "SDL_HAT_DOWN", "SDL_HAT_RIGHTDOWN"}
\* a hat value no case of the switch names (both LEFT and RIGHT bits set)
HatEvents == {Ev("SDL_JOYHATMOTION", s, 0, 0) : s \in HatSubs \cup {"SDL_HAT_LEFT|RIGHT"}}

AxisEv(axis, value) == Ev("SDL_JOYAXISMOTION", "", axis, value)
\* the readings of the end-to-end scenario
ScenarioValues == {0, 4000, 0 - 4000}
\* readings at and around the commit threshold
ThresholdValues == {JOY_COMMIT_RANGE - 1, JOY_COMMIT_RANGE, JOY_COMMIT_RANGE + 1,
                    0 - (JOY_COMMIT_RANGE - 1), 0 - JOY_COMMIT_RANGE,
                    0 - (JOY_COMMIT_RANGE + 1)}
\* axis 2 is a third physical axis the switch ignores
AxisEvents == {AxisEv(x, v) : x \in {0, 1}, v \in ScenarioValues} \cup {AxisEv(2, 4000)}
ThresholdEvents == {AxisEv(x, v) : x \in {0, 1}, v \in ThresholdValues \cup {0}}
                   \cup {AxisEv(2, JOY_COMMIT_RANGE + 1)}

\* key symbols: 'a', '0', 'z' (alphanumeric), '{', '#' (not), Return
KeySyms == {Cha, Ch0, Chz, Chz + 1, 35}
KeyEvents == {Ev("SDL_KEYDOWN", "", s, 0) : s \in KeySyms}
             \cup {Ev("SDL_KEYUP", "", s, 0) : s \in {Cha, 35}}
             \cup {Ev("SDL_KEYDOWN", "", SDLK_RETURN, m) : m \in {0, 1}}

OtherEvents == {Ev("SDL_QUIT", "", 0, 0), Ev("SDL_MOUSEMOTION", "", 0, 0)}

(* ------------------------------------------------------------- key mapper *)

\* mapscancode's for loop from index i (1-based here): <<TRUE, code>> at the
\* first entry whose symbol is sym, <<FALSE, 0>> when the sentinel is reached.
RECURSIVE mapscancode_loop(_, _, _)
mapscancode_loop(km, i, sym) ==
    IF km[i][1] = 0 THEN <<FALSE, 0>>
    ELSE IF km[i][1] = sym THEN <<TRUE, km[i][2]>>
    ELSE mapscancode_loop(km, i + 1, sym)

\* a plausible slip: the fallback for letters and digits is lost
mapscancode_nofallback(km, sym) ==
    LET r == mapscancode_loop(km, 1, sym)
    IN  IF r[1] THEN r[2] ELSE 0

mapscancode(km, sym) ==
    LET r == mapscancode_loop(km, 1, sym)
    IN  IF r[1] THEN r[2]
        ELSE IF sym >= Ch0 /\ sym <= Ch9 THEN sym
        ELSE IF sym >= Cha /\ sym <= Chz THEN sym
        ELSE 0

(* --------------------------------------------------------- axis debouncer *)

\* axis_data[axis].action[state]
axis_action(axis, state) ==
    IF axis = JA_X THEN <<K_JOYLEFT, 0, K_JOYRIGHT>>[state + 1]
    ELSE <<K_JOYUP, 0, K_JOYDOWN>>[state + 1]

\* *axis_data[axis].axis
axis_reg(p, axis) == IF axis = JA_X THEN p.Xstatus ELSE p.Ystatus

\* ev_postevent: append to the core's event queue
ev_postevent(p, type, code) ==
    [p EXCEPT !.evq = Append(@, [type |-> type, code |-> code])]

\* the record of one joyaxis_evt call kept in p.jlog
JCall(p, q, axis, newstate) ==
    [axis |-> axis, new |-> newstate, cur |-> axis_reg(p, axis),
     preX |-> p.Xstatus, preY |-> p.Ystatus,
     postX |-> q.Xstatus, postY |-> q.Ystatus,
     posted |-> SubSeq(q.evq, Len(p.evq) + 1, Len(q.evq))]

joyaxis_store(p, axis, newstate) ==
    IF axis = JA_X THEN [p EXCEPT !.Xstatus = newstate]
    ELSE [p EXCEPT !.Ystatus = newstate]

\* the body of joyaxis_evt on the program state p
joyaxis_body(p, axis, newstate) ==
    IF axis_reg(p, axis) = newstate THEN p
    ELSE LET p1 == ev_postevent(p, EV_RELEASE, axis_action(axis, axis_reg(p, axis)))
             p2 == joyaxis_store(p1, axis, newstate)
         IN  IF newstate # 1
             THEN ev_postevent(p2, EV_PRESS, axis_action(axis, newstate))
             ELSE p2

\* a plausible slip: the early return on an unchanged state is lost
joyaxis_evt_noreturn(p, axis, newstate) ==
    LET p1 == ev_postevent(p, EV_RELEASE, axis_action(axis, axis_reg(p, axis)))
        p2 == joyaxis_store(p1, axis, newstate)
        q  == IF newstate # 1
              THEN ev_postevent(p2, EV_PRESS, axis_action(axis, newstate))
              ELSE p2
    IN  [q EXCEPT !.jlog = Append(@, JCall(p, q, axis, newstate))]

\* a plausible slip: the new state is never stored
joyaxis_evt_nostore(p, axis, newstate) ==
    LET q == IF axis_reg(p, axis) = newstate THEN p
             ELSE LET p1 == ev_postevent(p, EV_RELEASE,
                                         axis_action(axis, axis_reg(p, axis)))
                  IN  IF newstate # 1
                      THEN ev_postevent(p1, EV_PRESS, axis_action(axis, newstate))
                      ELSE p1
    IN  [q EXCEPT !.jlog = Append(@, JCall(p, q, axis, newstate))]

joyaxis_evt(p, axis, newstate) ==
    LET q == joyaxis_body(p, axis, newstate)
    IN  [q EXCEPT !.jlog = Append(@, JCall(p, q, axis, newstate))]

(* -------------------------------------------------------- event dispatcher *)

\* a plausible slip: >= and <= in place of > and <
Quantize_inclusive(value) ==
    IF value >= JOY_COMMIT_RANGE THEN JAV_RIGHT_OR_DOWN
    ELSE IF value <= 0 - JOY_COMMIT_RANGE THEN JAV_LEFT_OR_UP
    ELSE JAV_CENTERED

\* the if / else-if / else of case 1 of SDL_JOYAXISMOTION
Quantize(value) ==
    IF value > JOY_COMMIT_RANGE THEN JAV_RIGHT_OR_DOWN
    ELSE IF value < 0 - JOY_COMMIT_RANGE THEN JAV_LEFT_OR_UP
    ELSE JAV_CENTERED

\* a plausible slip: a window event also posts an event to the core
case_window_posting(p, e) ==
    LET q == IF e.sub \in {"SDL_WINDOWEVENT_MINIMIZED", "SDL_WINDOWEVENT_HIDDEN"}
             THEN [p EXCEPT !.fb_enabled = 0]
             ELSE IF e.sub \in {"SDL_WINDOWEVENT_SHOWN", "SDL_WINDOWEVENT_RESTORED"}
             THEN [p EXCEPT !.fb_enabled = 1]
             ELSE p
    IN  ev_postevent(q, EV_PRESS, 0)

\* case SDL_WINDOWEVENT
case_window(p, e) ==
    IF e.sub \in {"SDL_WINDOWEVENT_MINIMIZED", "SDL_WINDOWEVENT_HIDDEN"}
    THEN [p EXCEPT !.fb_enabled = 0]
    ELSE IF e.sub \in {"SDL_WINDOWEVENT_SHOWN", "SDL_WINDOWEVENT_RESTORED"}
    THEN [p EXCEPT !.fb_enabled = 1]
    ELSE p

\* SDL_SetWindowFullscreen(win, fullscreen ? 0 : SDL_WINDOW_FULLSCREEN);
\* fullscreen = !fullscreen;   (the call's flag is 1 for SDL_WINDOW_FULLSCREEN)
toggle_fullscreen(p) ==
    [p EXCEPT !.sdl = Append(@, [fn |-> "SDL_SetWindowFullscreen",
                                 arg |-> IF p.fullscreen # 0 THEN 0 ELSE 1]),
              !.fullscreen = IF p.fullscreen # 0 THEN 0 ELSE 1]

\* a plausible slip: the test of KMOD_ALT is lost
case_keydown_anyreturn(p, e) ==
    LET p1 == IF e.a = SDLK_RETURN THEN toggle_fullscreen(p) ELSE p
    IN  ev_postevent(p1, EV_PRESS, mapscancode(p.keymap, e.a))

\* case SDL_KEYDOWN: e.a is keysym.sym, e.b is keysym.mod & KMOD_ALT;
\* use_altenter is not read
case_keydown(p, e) ==
    LET p1 == IF e.a = SDLK_RETURN /\ e.b # 0 THEN toggle_fullscreen(p) ELSE p
    IN  ev_postevent(p1, EV_PRESS, mapscancode(p.keymap, e.a))

\* case SDL_KEYUP
case_keyup(p, e) == ev_postevent(p, EV_RELEASE, mapscancode(p.keymap, e.a))

\* case SDL_JOYHATMOTION
case_hat(p, e) ==
    CASE e.sub = "SDL_HAT_LEFTUP" ->
           joyaxis_evt(joyaxis_evt(p, JA_X, JAV_LEFT_OR_UP), JA_Y, JAV_LEFT_OR_UP)
      [] e.sub = "SDL_HAT_UP" -> joyaxis_evt(p, JA_Y, JAV_LEFT_OR_UP)
      [] e.sub = "SDL_HAT_RIGHTUP" ->
           joyaxis_evt(joyaxis_evt(p, JA_X, JAV_RIGHT_OR_DOWN), JA_Y, JAV_LEFT_OR_UP)
      [] e.sub = "SDL_HAT_LEFT" -> joyaxis_evt(p, JA_X, JAV_LEFT_OR_UP)
      [] e.sub = "SDL_HAT_CENTERED" ->
           joyaxis_evt(joyaxis_evt(p, JA_X, JAV_CENTERED), JA_Y, JAV_CENTERED)
      [] e.sub = "SDL_HAT_RIGHT" -> joyaxis_evt(p, JA_X, JAV_RIGHT_OR_DOWN)
      [] e.sub = "SDL_HAT_LEFTDOWN" ->
           joyaxis_evt(joyaxis_evt(p, JA_X, JAV_LEFT_OR_UP), JA_Y, JAV_RIGHT_OR_DOWN)
      [] e.sub = "SDL_HAT_DOWN" -> joyaxis_evt(p, JA_Y, JAV_RIGHT_OR_DOWN)
      [] e.sub = "SDL_HAT_RIGHTDOWN" ->
           joyaxis_evt(joyaxis_evt(p, JA_X, JAV_RIGHT_OR_DOWN), JA_Y, JAV_RIGHT_OR_DOWN)
      [] OTHER -> p

\* case SDL_JOYAXISMOTION: ja = JA_Y; case 0 sets JA_X and falls through to 1
case_axis(p, e) ==
    IF e.a \in {0, 1}
    THEN joyaxis_evt(p, IF e.a = 0 THEN JA_X ELSE JA_Y, Quantize(e.b))
    ELSE p

\* a plausible slip: the bound is off by one, sixteen is let through
case_button_sixteen(p, e) ==
    IF e.a > 16 THEN p
    ELSE ev_postevent(p, IF e.type = "SDL_JOYBUTTONUP" THEN EV_RELEASE ELSE EV_PRESS,
                      K_JOY0 + e.a)

\* case SDL_JOYBUTTONUP / SDL_JOYBUTTONDOWN
case_button(p, e) ==
    IF e.a > 15 THEN p
    ELSE ev_postevent(p, IF e.type = "SDL_JOYBUTTONUP" THEN EV_RELEASE ELSE EV_PRESS,
                      K_JOY0 + e.a)

\* the switch of ev_poll, for every event type but SDL_QUIT
ev_poll_switch(p, e) ==
    CASE e.type = "SDL_WINDOWEVENT" -> case_window(p, e)
      [] e.type = "SDL_KEYDOWN" -> case_keydown(p, e)
      [] e.type = "SDL_KEYUP" -> case_keyup(p, e)
      [] e.type = "SDL_JOYHATMOTION" -> case_hat(p, e)
      [] e.type = "SDL_JOYAXISMOTION" -> case_axis(p, e)
      [] e.type \in {"SDL_JOYBUTTONUP", "SDL_JOYBUTTONDOWN"} -> case_button(p, e)
      [] OTHER -> p

\* what the observers keep of a program state
View(p) == [Xstatus |-> p.Xstatus, Ystatus |-> p.Ystatus,
            fullscreen |-> p.fullscreen, fb_enabled |-> p.fb_enabled,
            screen |-> p.screen]

\* the directional keys held after `events`, h being held before them
RECURSIVE HeldAfter(_, _)
HeldAfter(h, events) ==
    IF events = <<>> THEN h
    ELSE LET ev == Head(events)
             h1 == IF ev.code \notin DirKeys THEN h
                   ELSE IF ev.type = EV_PRESS THEN h \cup {ev.code}
                   ELSE h \ {ev.code}
         IN  HeldAfter(h1, Tail(events))

\* the X-axis readings of the end-to-end scenario
Scenario == <<0, 4000, 4000, 0 - 4000, 0>>

\* one iteration of the while loop: the switch on one event, and its record
ev_poll_iter(p, e) ==
    LET q == ev_poll_switch([p EXCEPT !.jlog = <<>>], e)
        posted == SubSeq(q.evq, Len(p.evq) + 1, Len(q.evq))
        onScen == /\ p.scen >= 0
                  /\ p.scen < Len(Scenario)
                  /\ e = AxisEv(0, Scenario[p.scen + 1])
    IN  [q EXCEPT !.trace = Append(@,
                      [ev |-> e, pre |-> View(p), post |-> View(q),
                       posted |-> posted, calls |-> q.jlog, heldpre |-> p.held]),
                  !.held = HeldAfter(p.held, posted),
                  !.scen = IF onScen THEN p.scen + 1 ELSE 0 - 1,
                  !.scenOut = IF onScen THEN Append(p.scenOut, posted) ELSE <<>>]

\* a plausible slip: the queue is read from its newest event
RECURSIVE ev_poll_loop_lifo(_, _)
ev_poll_loop_lifo(p, q) ==
    IF q = <<>> THEN [p EXCEPT !.hostq = <<>>]
    ELSE IF q[Len(q)].type = "SDL_QUIT"
    THEN [p EXCEPT !.hostq = SubSeq(q, 1, Len(q) - 1), !.exited = TRUE]
    ELSE ev_poll_loop_lifo(ev_poll_iter(p, q[Len(q)]), SubSeq(q, 1, Len(q) - 1))

\* while (SDL_PollEvent(&event)) ...: q is the host queue; SDL_QUIT exits the
\* process with the rest of the queue unread.
RECURSIVE ev_poll_loop(_, _)
ev_poll_loop(p, q) ==
    IF q = <<>> THEN [p EXCEPT !.hostq = <<>>]
    ELSE IF Head(q).type = "SDL_QUIT"
    THEN [p EXCEPT !.hostq = Tail(q), !.exited = TRUE]
    ELSE ev_poll_loop(ev_poll_iter(p, Head(q)), Tail(q))

(* ---------------------------------------------------- presentation pipeline *)

Call(fn, arg) == [fn |-> fn, arg |-> arg]

\* SDL_LockSurface / SDL_UnlockSurface on screens[i]: SDL counts the locks and
\* ignores an unlock of a surface that is not locked.
SDL_LockSurface(lk, i) == [lk EXCEPT ![i] = @ + 1]
SDL_UnlockSurface(lk, i) == [lk EXCEPT ![i] = IF @ > 0 THEN @ - 1 ELSE 0]

\* a plausible slip: the test of fb.enabled is lost
vid_end_calls_always(scr, enabled) ==
    <<Call("SDL_UnlockSurface", scr), Call("SDL_UpdateTexture", scr),
      Call("SDL_RenderClear", 0 - 1), Call("SDL_RenderCopy", 0 - 1),
      Call("SDL_RenderPresent", 0 - 1)>>

\* the SDL calls of vid_end, in order
vid_end_calls(scr, enabled) ==
    <<Call("SDL_UnlockSurface", scr)>> \o
    (IF enabled # 0
     THEN <<Call("SDL_UpdateTexture", scr), Call("SDL_RenderClear", 0 - 1),
            Call("SDL_RenderCopy", 0 - 1), Call("SDL_RenderPresent", 0 - 1)>>
     ELSE <<>>)

\* a plausible slip: the swap is moved out of the if (fb.enabled) block
vid_end_screen_always(scr, enabled) == IF scr = 0 THEN 1 ELSE 1

\* the value vid_end leaves in `screen`: both branches of the inner if assign
\* screens[1]
vid_end_screen(scr, enabled) ==
    IF enabled # 0 THEN (IF scr = 0 THEN 1 ELSE 1) ELSE scr

(* ------------------------------------------------------------------ actions *)

\* the program state ev_poll works on, with empty records of this call
Prog == [Xstatus |-> Xstatus, Ystatus |-> Ystatus, fullscreen |-> fullscreen,
         fb_enabled |-> fb_enabled, screen |-> screen, keymap |-> keymap,
         hostq |-> hostq, exited |-> FALSE, evq |-> <<>>, jlog |-> <<>>,
         sdl |-> <<>>,
         trace |-> <<>>, held |-> held, scen |-> scen, scenOut |-> scenOut]

\* the key tables: up to MaxKeymap entries, the sentinel, and what lies in
\* memory behind it
KeymapEntries == {<<Cha, 401>>, <<Cha, 402>>, <<35, 401>>}
RECURSIVE SeqsUpTo(_, _)
SeqsUpTo(S, n) ==
    IF n = 0 THEN {<<>>}
    ELSE LET shorter == SeqsUpTo(S, n - 1)
         IN  shorter \cup {Append(t, x) : t \in shorter, x \in S}
KeymapTables == {body \o <<<<0, 0>>, <<35, 402>>>> :
                    body \in SeqsUpTo(KeymapEntries, MaxKeymap)}

\* the statics after the configuration is read: sc the scale, vm the vmode
\* width and height, ae the altenter flag, km the key table
InitCfg(km, sc, vm, ae) ==
    /\ pc = "uninit"
    /\ rc_scale = sc
    /\ vmode = vm
    /\ use_altenter = ae
    /\ render_scale = 0
    /\ fb = [w |-> 0, h |-> 0, dirty |-> 0, delegate_scaling |-> 0]
    /\ win = FALSE
    /\ renderer = FALSE
    /\ screen = 0 - 1
    /\ locked = [i \in {0, 1} |-> 0]
    /\ fb_enabled = 0
    /\ fb_ptr = 0 - 1
    /\ fullscreen = 0
    /\ Xstatus = 0
    /\ Ystatus = 0
    /\ keymap = km
    /\ hostq = <<>>
    /\ lastop = "start"
    /\ evq = <<>>
    /\ polled = <<>>
    /\ sdlcalls = <<>>
    /\ held = {}
    /\ frames = 0
    /\ allshown = TRUE
    /\ scen = 0 - 1
    /\ scenOut = <<>>

\* the configuration left at its defaults: vmode = {0, 0, 32}, altenter on
InitWith(km) == InitCfg(km, 1, <<0, 0>>, 1)

Init == \E km \in KeymapTables : InitWith(km)

\* an empty key table, for the behaviours in which no key event arrives
InitNoKeys == InitWith(<<<<0, 0>>>>)

\* the value of the local `scale` after the if (!vmode[0] || !vmode[1]) block
vid_init_scale(sc, vm) ==
    IF vm[1] = 0 \/ vm[2] = 0 THEN (IF sc < 1 THEN 1 ELSE sc) ELSE sc

\* vmode[0], vmode[1] after that block: the window's size
vid_init_vmode(sc, vm) ==
    IF vm[1] = 0 \/ vm[2] = 0
    THEN <<160 * vid_init_scale(sc, vm), 144 * vid_init_scale(sc, vm)>>
    ELSE vm

\* a plausible slip: the SDL_UnlockSurface of line 212 is lost
vid_init_locks_nounlock(lk) == SDL_LockSurface(lk, 0)

\* the lock depths vid_init leaves: SDL_LockSurface(screen) at line 196,
\* SDL_UnlockSurface(screen) at line 212
vid_init_locks(lk) == SDL_UnlockSurface(SDL_LockSurface(lk, 0), 0)

\* vid_init (with joy_init): SDL_Init or SDL_CreateWindow failing ends the
\* process in die(); the renderer is not tested.
vid_init ==
    /\ pc = "uninit"
    /\ \E sdl_ok \in BOOLEAN, win_ok \in BOOLEAN, ren_ok \in BOOLEAN :
         /\ vmode' = vid_init_vmode(rc_scale, vmode)
         /\ IF ~sdl_ok \/ ~win_ok
            THEN /\ pc' = "exited"
                 /\ UNCHANGED <<win, renderer, screen, locked, fb_enabled, fb_ptr,
                                Xstatus, Ystatus, sdlcalls, scen, render_scale, fb>>
            ELSE /\ pc' = "ready"
                 /\ win' = TRUE
                 /\ renderer' = ren_ok
                 /\ render_scale' = vid_init_scale(rc_scale, vmode)
                 /\ screen' = 0
                 /\ Xstatus' = JAV_CENTERED
                 /\ Ystatus' = JAV_CENTERED
                 /\ locked' = vid_init_locks(locked)
                 /\ fb' = [w |-> 160, h |-> 144, dirty |-> 0, delegate_scaling |-> 1]
                 /\ fb_ptr' = 0
                 /\ fb_enabled' = 1
                 /\ sdlcalls' = <<Call("SDL_LockSurface", 0), Call("SDL_UnlockSurface", 0)>>
                 /\ scen' = 0
    /\ lastop' = "vid_init"
    /\ UNCHANGED <<fullscreen, keymap, hostq, evq, polled, held, frames,
                   allshown, scenOut, rc_scale, use_altenter>>

\* the host queues an event
SDL_PushEvent(e) ==
    /\ pc \in {"ready", "frame", "closed"}
    /\ Len(hostq) < MaxHostQ
    /\ hostq' = Append(hostq, e)
    /\ lastop' = "SDL_PushEvent"
    /\ evq' = <<>>
    /\ polled' = <<>>
    /\ sdlcalls' = <<>>
    /\ UNCHANGED <<pc, win, renderer, screen, locked, fb_enabled, fb_ptr,
                   fullscreen, Xstatus, Ystatus, keymap, held, frames, allshown,
                   scen, scenOut, rc_scale, vmode, use_altenter, render_scale, fb>>

\* ev_poll reads no state of the pipeline before it polls: it runs the same
\* after vid_close
ev_poll ==
    /\ pc \in {"ready", "frame", "closed"}
    /\ LET r == ev_poll_loop(Prog, hostq)
       IN  /\ pc' = IF r.exited THEN "exited" ELSE pc
           /\ Xstatus' = r.Xstatus
           /\ Ystatus' = r.Ystatus
           /\ fullscreen' = r.fullscreen
           /\ fb_enabled' = r.fb_enabled
           /\ screen' = r.screen
           /\ hostq' = r.hostq
           /\ evq' = r.evq
           /\ polled' = r.trace
           /\ held' = r.held
           /\ scen' = r.scen
           /\ scenOut' = r.scenOut
           /\ sdlcalls' = r.sdl
    /\ lastop' = "ev_poll"
    /\ UNCHANGED <<win, renderer, locked, fb_ptr, keymap, frames, allshown,
                   rc_scale, vmode, use_altenter, render_scale, fb>>

vid_begin ==
    /\ pc = "ready"
    /\ pc' = "frame"
    /\ locked' = SDL_LockSurface(locked, screen)
    /\ fb_ptr' = screen
    /\ sdlcalls' = <<Call("SDL_LockSurface", screen)>>
    /\ lastop' = "vid_begin"
    /\ evq' = <<>>
    /\ polled' = <<>>
    /\ UNCHANGED <<win, renderer, screen, fb_enabled, fullscreen, Xstatus,
                   Ystatus, keymap, hostq, held, frames, allshown, scen, scenOut,
                   rc_scale, vmode, use_altenter, render_scale, fb>>

vid_end ==
    /\ pc = "frame"
    /\ pc' = "ready"
    /\ locked' = SDL_UnlockSurface(locked, screen)
    /\ sdlcalls' = vid_end_calls(screen, fb_enabled)
    /\ screen' = vid_end_screen(screen, fb_enabled)
    /\ frames' = (frames + 1) % 2
    /\ allshown' = (allshown /\ fb_enabled # 0)
    /\ lastop' = "vid_end"
    /\ evq' = <<>>
    /\ polled' = <<>>
    /\ UNCHANGED <<win, renderer, fb_enabled, fb_ptr, fullscreen, Xstatus,
                   Ystatus, keymap, hostq, held, scen, scenOut,
                   rc_scale, vmode, use_altenter, render_scale, fb>>

\* vid_close, called between frames: the unlock of `screen`, the destruction
\* of the renderer and the window, SDL_FreeSurface of both surfaces
\* (arguments 0 and 1), SDL_Quit, fb.enabled = 0
vid_close ==
    /\ pc = "ready"
    /\ pc' = "closed"
    /\ locked' = SDL_UnlockSurface(locked, screen)
    /\ sdlcalls' = <<Call("SDL_UnlockSurface", screen),
                     Call("SDL_DestroyRenderer", 0 - 1),
                     Call("SDL_DestroyWindow", 0 - 1),
                     Call("SDL_FreeSurface", 0), Call("SDL_FreeSurface", 1),
                     Call("SDL_Quit", 0 - 1)>>
    /\ renderer' = FALSE
    /\ win' = FALSE
    /\ fb_enabled' = 0
    /\ lastop' = "vid_close"
    /\ evq' = <<>>
    /\ polled' = <<>>
    /\ UNCHANGED <<screen, fb_ptr, fullscreen, Xstatus, Ystatus, keymap, hostq,
                   held, frames, allshown, scen, scenOut, rc_scale, vmode,
                   use_altenter, render_scale, fb>>

ButtonEvents == {Ev(t, "", b, 0) : t \in {"SDL_JOYBUTTONUP", "SDL_JOYBUTTONDOWN"},
                                   b \in {0, 15, 16}}
HostEvents == WindowEvents \cup KeyEvents \cup HatEvents \cup AxisEvents
              \cup ThresholdEvents \cup ButtonEvents \cup OtherEvents

\* the whole backend under every host event
Next ==
    \/ vid_init
    \/ \E e \in HostEvents : SDL_PushEvent(e)
    \/ ev_poll
    \/ vid_begin
    \/ vid_end
    \/ vid_close
Spec == Init /\ [][Next]_vars

\* the joystick: hat and axis motion
NextJoy ==
    \/ vid_init
    \/ \E e \in HatEvents \cup AxisEvents : SDL_PushEvent(e)
    \/ ev_poll
SpecJoy == InitNoKeys /\ [][NextJoy]_vars

\* axis readings at and around the commit threshold
NextQuant ==
    \/ vid_init
    \/ \E e \in ThresholdEvents : SDL_PushEvent(e)
    \/ ev_poll
SpecQuant == InitNoKeys /\ [][NextQuant]_vars

\* the keyboard, under every key table
NextKey ==
    \/ vid_init
    \/ \E e \in KeyEvents : SDL_PushEvent(e)
    \/ ev_poll
SpecKey == Init /\ [][NextKey]_vars

\* the frame loop, with the window's visibility changing; one hat motion and
\* Alt+Return move the registers and the fullscreen flag meanwhile
VidEvents == WindowEvents \cup {Ev("SDL_QUIT", "", 0, 0)}
             \cup {Ev("SDL_JOYHATMOTION", "SDL_HAT_LEFTUP", 0, 0),
                   Ev("SDL_KEYDOWN", "", SDLK_RETURN, 1)}
NextVid ==
    \/ vid_init
    \/ \E e \in VidEvents : SDL_PushEvent(e)
    \/ ev_poll
    \/ vid_begin
    \/ vid_end
SpecVid == InitNoKeys /\ [][NextVid]_vars

\* the joystick buttons, with one hat motion moving the registers
NextButton ==
    \/ vid_init
    \/ \E e \in ButtonEvents \cup {Ev("SDL_JOYHATMOTION", "SDL_HAT_LEFTUP", 0, 0)} :
          SDL_PushEvent(e)
    \/ ev_poll
SpecButton == InitNoKeys /\ [][NextButton]_vars

\* the configured scales and video modes: none, half set, set
ScaleValues == {0 - 1, 0, 1, 2}
VmodeValues == {<<0, 0>>, <<0, 288>>, <<320, 288>>}
InitScale == \E sc \in ScaleValues, vm \in VmodeValues :
                InitCfg(<<<<0, 0>>>>, sc, vm, 1)
\* vid_init under every configuration, then frames under window events
NextCfg ==
    \/ vid_init
    \/ \E e \in {Ev("SDL_WINDOWEVENT", s, 0, 0) :
                     s \in {"SDL_WINDOWEVENT_HIDDEN", "SDL_WINDOWEVENT_SHOWN"}} :
          SDL_PushEvent(e)
    \/ ev_poll
    \/ vid_begin
    \/ vid_end
SpecCfg == InitScale /\ [][NextCfg]_vars

\* the fullscreen toggle: Return and 'a' with and without Alt, a key-up, a
\* hat motion, a button, a window event; a key table that binds Return;
\* altenter configured on or off
ToggleEvents == {Ev("SDL_KEYDOWN", "", s, m) : s \in {SDLK_RETURN, Cha}, m \in {0, 1}}
                \cup {Ev("SDL_KEYUP", "", SDLK_RETURN, 1),
                      Ev("SDL_JOYHATMOTION", "SDL_HAT_LEFTUP", 0, 0),
                      Ev("SDL_JOYBUTTONDOWN", "", 0, 0),
                      Ev("SDL_WINDOWEVENT", "SDL_WINDOWEVENT_HIDDEN", 0, 0)}
InitToggle == \E ae \in {0, 1} :
                 InitCfg(<<<<SDLK_RETURN, 401>>, <<0, 0>>>>, 1, <<0, 0>>, ae)
NextToggle ==
    \/ vid_init
    \/ \E e \in ToggleEvents : SDL_PushEvent(e)
    \/ ev_poll
SpecToggle == InitToggle /\ [][NextToggle]_vars

\* the hat alone: its nine positions, no axis motion
NextHat ==
    \/ vid_init
    \/ \E e \in {Ev("SDL_JOYHATMOTION", s, 0, 0) : s \in HatSubs} : SDL_PushEvent(e)
    \/ ev_poll
SpecHat == InitNoKeys /\ [][NextHat]_vars

\* hat and axis motion mixed: four hat positions, readings of both axes and of
\* a third axis
MotionEvents == {Ev("SDL_JOYHATMOTION", h, 0, 0) :
                    h \in {"SDL_HAT_LEFT", "SDL_HAT_UP", "SDL_HAT_LEFTUP",
                           "SDL_HAT_CENTERED"}}
                \cup {AxisEv(0, 4000), AxisEv(0, 0), AxisEv(1, 0 - 4000),
                      AxisEv(2, 4000)}
NextMotion ==
    \/ vid_init
    \/ \E e \in MotionEvents : SDL_PushEvent(e)
    \/ ev_poll
SpecMotion == InitNoKeys /\ [][NextMotion]_vars

\* the pipeline from init to close, window events arriving before and after
\* the close
NextLife ==
    \/ vid_init
    \/ \E e \in WindowEvents : SDL_PushEvent(e)
    \/ ev_poll
    \/ vid_begin
    \/ vid_end
    \/ vid_close
SpecLife == InitNoKeys /\ [][NextLife]_vars

(* ------------------------------------------------------------------- claims *)

PRESS(k) == [type |-> EV_PRESS, code |-> k]
RELEASE(k) == [type |-> EV_RELEASE, code |-> k]

\* the key bound to (axis, state): X -> LEFT, -, RIGHT; Y -> UP, -, DOWN
BoundKey(axis, state) ==
    CASE axis = JA_X /\ state = JAV_LEFT_OR_UP -> K_JOYLEFT
      [] axis = JA_X /\ state = JAV_RIGHT_OR_DOWN -> K_JOYRIGHT
      [] axis = JA_Y /\ state = JAV_LEFT_OR_UP -> K_JOYUP
      [] axis = JA_Y /\ state = JAV_RIGHT_OR_DOWN -> K_JOYDOWN

\* the joyaxis_evt calls of the most recent ev_poll
JoyCalls == {polled[i].calls[j] : <<i, j>> \in
               {x \in (DOMAIN polled) \X (1..2) : x[2] \in DOMAIN polled[x[1]].calls}}

\* the host events the most recent ev_poll consumed, with what each did
Handled == {polled[i] : i \in DOMAIN polled}

ScenarioExpected ==
    << <<>>,
       <<PRESS(K_JOYRIGHT)>>,
       <<>>,
       <<RELEASE(K_JOYRIGHT), PRESS(K_JOYLEFT)>>,
       <<RELEASE(K_JOYLEFT)>> >>

\* C1: from both registers CENTERED the X-axis readings 0, 4000, 4000, -4000, 0
\* post PRESS(RIGHT) at the second, RELEASE(RIGHT) PRESS(LEFT) at the fourth,
\* RELEASE(LEFT) at the fifth reading and nothing else: four events in all.
C1_Scenario ==
    scen >= 0 => \A i \in 1..scen : scenOut[i] = ScenarioExpected[i]

\* C2: a joyaxis_evt(A, n) call with n different from the register value c
\* posts RELEASE of the key of (A, c) iff c is not CENTERED, then PRESS of the
\* key of (A, n) iff n is not CENTERED, and nothing else.
C2_Transition ==
    \A c \in JoyCalls :
        c.new # c.cur =>
            c.posted =
                (IF c.cur # JAV_CENTERED THEN <<RELEASE(BoundKey(c.axis, c.cur))>>
                 ELSE <<>>)
                \o (IF c.new # JAV_CENTERED THEN <<PRESS(BoundKey(c.axis, c.new))>>
                    ELSE <<>>)

\* events ev, posted with the directional keys h held, keep every directional
\* key's RELEASE behind a PRESS and never PRESS a held key
RECURSIVE Paired(_, _)
Paired(h, events) ==
    IF events = <<>> THEN TRUE
    ELSE LET ev == Head(events)
         IN  IF ev.code \notin DirKeys THEN Paired(h, Tail(events))
             ELSE IF ev.type = EV_PRESS
             THEN ev.code \notin h /\ Paired(h \cup {ev.code}, Tail(events))
             ELSE ev.code \in h /\ Paired(h \ {ev.code}, Tail(events))

\* C3: in every prefix of the posted event stream, for each directional key K,
\* there are no more RELEASE(K) than PRESS(K) and no two PRESS(K) without a
\* RELEASE(K) between them.  (held is the balance of the stream so far; every
\* posted event lies in some state's record of the most recent ev_poll.)
C3_Pairing ==
    \A h \in Handled : Paired(h.heldpre, h.posted)

C3_Witness ==
    \E h \in Handled :
        /\ K_JOYRIGHT \in h.heldpre
        /\ h.ev.type = "SDL_JOYHATMOTION"
        /\ h.posted = <<RELEASE(K_JOYRIGHT), PRESS(K_JOYLEFT), RELEASE(0), PRESS(K_JOYUP)>>

\* C4: joyaxis_evt(axis, s) with the register already s posts nothing and
\* leaves both registers as they are.
C4_NoOp ==
    \A c \in JoyCalls :
        c.new = c.cur =>
            c.posted = <<>> /\ c.postX = c.preX /\ c.postY = c.preY

C4_Witness ==
    \E c \in JoyCalls :
        c.axis = JA_X /\ c.new = JAV_RIGHT_OR_DOWN /\ c.cur = JAV_RIGHT_OR_DOWN

\* the state an axis-motion event on logical axis 0 or 1 handed to joyaxis_evt
QuantizedTo(h) == h.calls[1].new
AxisHandled == {h \in Handled : h.ev.type = "SDL_JOYAXISMOTION" /\ h.ev.a \in {0, 1}}

\* C5 as stated: T-1 quantizes to CENTERED, every value >= T (T included) to
\* RIGHT_OR_DOWN, -(T-1) to CENTERED, every value <= -T to LEFT_OR_UP.
C5_Original ==
    \A h \in AxisHandled :
        /\ Len(h.calls) = 1
        /\ h.ev.b = JOY_COMMIT_RANGE - 1 => QuantizedTo(h) = JAV_CENTERED
        /\ h.ev.b >= JOY_COMMIT_RANGE => QuantizedTo(h) = JAV_RIGHT_OR_DOWN
        /\ h.ev.b = 0 - (JOY_COMMIT_RANGE - 1) => QuantizedTo(h) = JAV_CENTERED
        /\ h.ev.b <= 0 - JOY_COMMIT_RANGE => QuantizedTo(h) = JAV_LEFT_OR_UP

\* C5, amended: T-1 and T itself quantize to CENTERED, every value > T to
\* RIGHT_OR_DOWN; -(T-1) and -T to CENTERED, every value < -T to LEFT_OR_UP;
\* on both logical axes.
C5_Amended ==
    \A h \in AxisHandled :
        /\ Len(h.calls) = 1
        /\ h.calls[1].axis = (IF h.ev.a = 0 THEN JA_X ELSE JA_Y)
        /\ h.ev.b \in {JOY_COMMIT_RANGE - 1, JOY_COMMIT_RANGE}
              => QuantizedTo(h) = JAV_CENTERED
        /\ h.ev.b >= JOY_COMMIT_RANGE + 1 => QuantizedTo(h) = JAV_RIGHT_OR_DOWN
        /\ h.ev.b \in {0 - (JOY_COMMIT_RANGE - 1), 0 - JOY_COMMIT_RANGE}
              => QuantizedTo(h) = JAV_CENTERED
        /\ h.ev.b <= 0 - (JOY_COMMIT_RANGE + 1) => QuantizedTo(h) = JAV_LEFT_OR_UP

C5_Witness ==
    \E h \in AxisHandled :
        /\ h.ev.a = 1
        /\ h.ev.b = JOY_COMMIT_RANGE
        /\ h.pre.Ystatus = JAV_RIGHT_OR_DOWN
        /\ h.post.Ystatus = JAV_CENTERED

\* what the key table km says of sym: the code of the first entry for sym
\* before the sentinel, else sym itself for '0'..'9' and 'a'..'z', else 0
Mapped(km, sym) ==
    LET sentinel == CHOOSE i \in DOMAIN km :
                        km[i][1] = 0 /\ \A j \in 1..(i - 1) : km[j][1] # 0
        hits == {i \in 1..(sentinel - 1) : km[i][1] = sym}
    IN  IF hits # {}
        THEN km[CHOOSE i \in hits : \A j \in hits : i <= j][2]
        ELSE IF sym \in 48..57 \cup 97..122 THEN sym
        ELSE 0

\* C6: the code a key event posts is mapscancode's value: the first table entry
\* for the symbol before the sentinel, else the symbol itself for a digit or a
\* lowercase letter, else 0; and the lookup changes no state (a key-up changes
\* nothing at all, a key-down at most the fullscreen flag).
C6_Mapping ==
    \A h \in Handled :
        h.ev.type \in {"SDL_KEYDOWN", "SDL_KEYUP"} =>
            /\ h.posted = <<[type |-> IF h.ev.type = "SDL_KEYDOWN" THEN EV_PRESS
                                     ELSE EV_RELEASE,
                            code |-> Mapped(keymap, h.ev.a)]>>
            /\ [h.post EXCEPT !.fullscreen = 0] = [h.pre EXCEPT !.fullscreen = 0]
            /\ h.ev.type = "SDL_KEYUP" => h.post = h.pre

C6_Witness ==
    /\ Len(keymap) = 4
    /\ keymap[1] = <<35, 401>>
    /\ keymap[2] = <<Cha, 402>>
    /\ \E h \in Handled : h.ev.type = "SDL_KEYDOWN" /\ h.ev.a = Cha
                          /\ h.posted = <<PRESS(402)>>
    /\ \E h \in Handled : h.ev.type = "SDL_KEYUP" /\ h.ev.a = 35
                          /\ h.posted = <<RELEASE(401)>>

\* C7: after vid_init and N completed vid_begin/vid_end cycles, all ended with
\* fb.enabled true, the front surface is screens[N mod 2].
C7_Alternation ==
    (pc \in {"ready", "frame"} /\ allshown) => screen = frames

CallsOf(fn) == {i \in DOMAIN sdlcalls : sdlcalls[i].fn = fn}

\* C8: vid_end with fb.enabled false unlocks the surface vid_begin locked and
\* makes no upload, clear, copy or present call; with fb.enabled true it makes
\* exactly one upload, of that surface, and after it exactly one present.
C8_Gating ==
    lastop = "vid_end" =>
        /\ pc = "ready"
        /\ sdlcalls[1] = Call("SDL_UnlockSurface", fb_ptr)
        /\ CallsOf("SDL_UnlockSurface") = {1}
        /\ locked[fb_ptr] = 0
        /\ fb_enabled = 0 =>
              /\ CallsOf("SDL_UpdateTexture") = {}
              /\ CallsOf("SDL_RenderClear") = {}
              /\ CallsOf("SDL_RenderCopy") = {}
              /\ CallsOf("SDL_RenderPresent") = {}
        /\ fb_enabled # 0 =>
              /\ \E u \in DOMAIN sdlcalls, r \in DOMAIN sdlcalls :
                    /\ CallsOf("SDL_UpdateTexture") = {u}
                    /\ CallsOf("SDL_RenderPresent") = {r}
                    /\ sdlcalls[u].arg = fb_ptr
                    /\ u < r

C8_Witness ==
    lastop = "vid_end" /\ fb_enabled = 0 /\ Len(sdlcalls) = 1

C10_Window ==
    \A h \in Handled :
        h.ev.type = "SDL_WINDOWEVENT" =>
            /\ h.posted = <<>>
            /\ h.calls = <<>>
            /\ h.post.fb_enabled =
                  (IF h.ev.sub \in {"SDL_WINDOWEVENT_HIDDEN", "SDL_WINDOWEVENT_MINIMIZED"}
                   THEN 0
                   ELSE IF h.ev.sub \in {"SDL_WINDOWEVENT_SHOWN", "SDL_WINDOWEVENT_RESTORED"}
                   THEN 1
                   ELSE h.pre.fb_enabled)
            /\ h.post.Xstatus = h.pre.Xstatus
            /\ h.post.Ystatus = h.pre.Ystatus
            /\ h.post.fullscreen = h.pre.fullscreen
            /\ h.post.screen = h.pre.screen

C10_Witness ==
    \E h \in Handled :
        /\ h.ev = Ev("SDL_WINDOWEVENT", "SDL_WINDOWEVENT_HIDDEN", 0, 0)
        /\ h.pre.fb_enabled = 1
        /\ h.post.fb_enabled = 0
        /\ h.pre.Xstatus = JAV_LEFT_OR_UP
        /\ h.pre.fullscreen = 1
        /\ h.pre.screen = 1

IsButton(e) == e.type \in {"SDL_JOYBUTTONUP", "SDL_JOYBUTTONDOWN"}

\* C11: a joystick button event with index 0..15 posts exactly one event, PRESS
\* of K_JOY0 + index for button-down and RELEASE of K_JOY0 + index for
\* button-up; with an index above 15 it posts nothing and changes no state; no
\* button event calls joyaxis_evt or changes an axis register.
C11_Buttons ==
    \A h \in Handled :
        IsButton(h.ev) =>
            /\ h.calls = <<>>
            /\ h.post.Xstatus = h.pre.Xstatus
            /\ h.post.Ystatus = h.pre.Ystatus
            /\ IF h.ev.a >= 0 /\ h.ev.a <= 15
               THEN h.posted = << IF h.ev.type = "SDL_JOYBUTTONDOWN"
                                  THEN PRESS(K_JOY0 + h.ev.a)
                                  ELSE RELEASE(K_JOY0 + h.ev.a) >>
               ELSE h.posted = <<>> /\ h.post = h.pre

\* button 15 pressed and button 16 released in one poll, a register off-centre
C11_Witness ==
    /\ lastop = "ev_poll"
    /\ Len(polled) = 2
    /\ polled[1].ev = Ev("SDL_JOYBUTTONDOWN", "", 15, 0)
    /\ polled[1].pre.Xstatus = JAV_LEFT_OR_UP
    /\ polled[1].posted = <<PRESS(K_JOY0 + 15)>>
    /\ polled[2].ev = Ev("SDL_JOYBUTTONUP", "", 16, 0)
    /\ evq = <<PRESS(K_JOY0 + 15)>>

\* the events the entries of a poll trace posted, one after another
RECURSIVE PostedInOrder(_)
PostedInOrder(tr) ==
    IF tr = <<>> THEN <<>> ELSE Head(tr).posted \o PostedInOrder(Tail(tr))

C13_FatalInit ==
    pc \in {"ready", "frame"} => (win /\ renderer)

\* C14 as claimed: when vid_init returns the front surface screens[0] is
\* locked, fb.ptr points at its pixels, fb.enabled is true, fb.dirty false,
\* fb.delegate_scaling true and both axis registers are CENTERED.
C14_Original ==
    (lastop = "vid_init" /\ pc = "ready") =>
        /\ screen = 0
        /\ locked[0] = 1
        /\ fb_ptr = 0
        /\ fb_enabled = 1
        /\ fb.dirty = 0
        /\ fb.delegate_scaling = 1
        /\ Xstatus = JAV_CENTERED
        /\ Ystatus = JAV_CENTERED

\* C14 amended: when vid_init returns the front surface screens[0] has been
\* locked and unlocked again (its lock depth is 0, as is that of screens[1]),
\* fb.ptr points at its pixels, fb.enabled is true, fb.dirty false,
\* fb.delegate_scaling true, the frame buffer is 160 by 144 and both axis
\* registers are CENTERED.
C14_Amended ==
    (lastop = "vid_init" /\ pc = "ready") =>
        /\ screen = 0
        /\ locked[0] = 0
        /\ locked[1] = 0
        /\ sdlcalls = <<Call("SDL_LockSurface", 0), Call("SDL_UnlockSurface", 0)>>
        /\ fb_ptr = 0
        /\ fb_enabled = 1
        /\ fb.dirty = 0
        /\ fb.delegate_scaling = 1
        /\ fb.w = 160
        /\ fb.h = 144
        /\ Xstatus = JAV_CENTERED
        /\ Ystatus = JAV_CENTERED

\* vid_init has just returned
C14_Witness ==
    /\ lastop = "vid_init"
    /\ pc = "ready"
    /\ fb_enabled = 1
    /\ Xstatus = JAV_CENTERED

IsAltEnter(e) == e.type = "SDL_KEYDOWN" /\ e.a = SDLK_RETURN /\ e.b # 0
AltEnters == {i \in DOMAIN polled : IsAltEnter(polled[i].ev)}

\* C15: a key-down of Return with Alt held flips the fullscreen flag once (one
\* SDL_SetWindowFullscreen request) and posts the PRESS of the code Return maps
\* to; every other event leaves the flag; so the flag after a poll is the flag
\* before it flipped once per Alt+Return, and two of them restore it.
C15_Toggle ==
    /\ \A h \in Handled :
          IF IsAltEnter(h.ev)
          THEN /\ h.post.fullscreen = 1 - h.pre.fullscreen
               /\ h.posted = <<PRESS(Mapped(keymap, SDLK_RETURN))>>
          ELSE h.post.fullscreen = h.pre.fullscreen
    /\ (lastop = "ev_poll" /\ polled # <<>>) =>
          /\ fullscreen = (polled[1].pre.fullscreen + Cardinality(AltEnters)) % 2
          /\ Cardinality(CallsOf("SDL_SetWindowFullscreen")) = Cardinality(AltEnters)

\* two Alt+Return key-downs in one poll, starting in fullscreen
C15_Witness ==
    /\ lastop = "ev_poll"
    /\ Len(polled) = 2
    /\ IsAltEnter(polled[1].ev)
    /\ IsAltEnter(polled[2].ev)
    /\ polled[1].pre.fullscreen = 1
    /\ polled[1].post.fullscreen = 0
    /\ fullscreen = 1

\* C16: with altenter configured off no polled event changes the fullscreen
\* flag or requests a fullscreen change of the window.
C16_Gating ==
    use_altenter = 0 =>
        /\ \A h \in Handled : h.post.fullscreen = h.pre.fullscreen
        /\ lastop = "ev_poll" => CallsOf("SDL_SetWindowFullscreen") = {}

\* C17: after vid_init, with s the larger of the configured scale and 1, the
\* renderer's scale factor is s (so never below 1), a window size derived from
\* the scale is 160 s by 144 s, the only other window size being a configured
\* one with both dimensions set, and the frame buffer is 160 by 144.
C17_Scale ==
    pc \in {"ready", "frame"} =>
        LET s == IF rc_scale < 1 THEN 1 ELSE rc_scale
        IN  /\ render_scale = s
            /\ render_scale >= 1
            /\ \/ vmode = <<160 * s, 144 * s>>
               \/ vmode \in {vm \in VmodeValues : vm[1] # 0 /\ vm[2] # 0}
            /\ fb.w = 160
            /\ fb.h = 144

\* the directions of a hat position
HatKeys(sub) ==
    CASE sub = "SDL_HAT_LEFTUP" -> {K_JOYLEFT, K_JOYUP}
      [] sub = "SDL_HAT_UP" -> {K_JOYUP}
      [] sub = "SDL_HAT_RIGHTUP" -> {K_JOYRIGHT, K_JOYUP}
      [] sub = "SDL_HAT_LEFT" -> {K_JOYLEFT}
      [] sub = "SDL_HAT_CENTERED" -> {}
      [] sub = "SDL_HAT_RIGHT" -> {K_JOYRIGHT}
      [] sub = "SDL_HAT_LEFTDOWN" -> {K_JOYLEFT, K_JOYDOWN}
      [] sub = "SDL_HAT_DOWN" -> {K_JOYDOWN}
      [] sub = "SDL_HAT_RIGHTDOWN" -> {K_JOYRIGHT, K_JOYDOWN}

\* C18: when only hat motion arrives, the directional keys held after a poll
\* are exactly the directions of the last hat position polled.
C18_HatHeld ==
    (lastop = "ev_poll" /\ polled # <<>>) =>
        held = HatKeys(polled[Len(polled)].ev.sub)

\* the lock and unlock calls of one operation, from the lock depths lk: a
\* surface is locked only at depth 0 and unlocked only at depth 1
RECURSIVE LockDiscipline(_, _)
LockDiscipline(lk, calls) ==
    IF calls = <<>> THEN TRUE
    ELSE LET c == Head(calls)
         IN  IF c.fn = "SDL_LockSurface"
             THEN /\ lk[c.arg] = 0
                  /\ LockDiscipline(SDL_LockSurface(lk, c.arg), Tail(calls))
             ELSE IF c.fn = "SDL_UnlockSurface"
             THEN /\ lk[c.arg] = 1
                  /\ LockDiscipline(SDL_UnlockSurface(lk, c.arg), Tail(calls))
             ELSE LockDiscipline(lk, Tail(calls))

\* C19: over init, any number of begin/end cycles and close, whatever
\* fb.enabled is: every operation locks a surface only when its depth is 0
\* and unlocks one only when its depth is 1, the depths stay in {0, 1}, vid_end
\* unlocks the surface vid_begin locked, and after close no surface is locked.
C19_Locks ==
    [][ /\ LockDiscipline(locked, sdlcalls')
        /\ \A i \in {0, 1} : locked'[i] \in {0, 1}
        /\ lastop' = "vid_end" => sdlcalls'[1] = Call("SDL_UnlockSurface", fb_ptr)
        /\ pc' = "closed" => \A i \in {0, 1} : locked'[i] = 0 ]_vars

\* C20: once vid_close has run fb.enabled is false under every later
\* operation, a poll of a window SHOWN or RESTORED event included.
C20_StaysDisabled ==
    pc = "closed" => fb_enabled = 0

====
